---- MODULE Spec2Model ----
(***************************************************************************)
(* Model of om_performance_monitor/monitors.py: the PerformanceMonitor     *)
(* dataclass (start / end / reset / save_block / log_time and the context  *)
(* manager hooks __enter__ / __exit__), driven by a single-threaded caller *)
(* that may open `with` regions on the monitor, nested up to MaxDepth.     *)
(***************************************************************************)
EXTENDS Integers, Sequences, FiniteSets

\* ---------------------------------------------------------------- bounds
MaxTime == 2        \* time.perf_counter() readings range over 0..MaxTime
MaxDepth == 2       \* deepest nesting of `with` regions on the monitor

\* ------------------------------------------------------------- constants
None == -1          \* Optional[float] = None (a reading is never negative)
NoLogger == "None"  \* logger=None
Sink == "print"      \* logger=print (the default), or any other callable
Loggers == {Sink, NoLogger}

CtxName == "ctx_manager"
Names == {"a", CtxName}
NoName == "-"

\* Outcomes of a call.  The source raises TimerError for three different
\* conditions, told apart by their message; SaveError for the fourth.
NoErr == "ok"
TimerNotStarted == "TimerError: Timer was not started"
NoSavedBlock == "TimerError: No saved timer blocks"
NoSinkConfigured == "TimerError: No logger configured"
SaveFailure == "SaveError"
CustomError == "CustomError"     \* any exception raised by a with-body

Times == 0..MaxTime

VARIABLES start_time, end_time, timer_blocks, logger, clock, scopes, own_start, last

vars == <<start_time, end_time, timer_blocks, logger, clock, scopes, own_start, last>>

\* own_start: a `with` region is open and no start(), reset() or nested region
\* has followed the __enter__ of the innermost one, so start_time is still the
\* reading that __enter__ took.

\* The monitor object as seen by its methods.
self == [start_time |-> start_time, end_time |-> end_time,
         timer_blocks |-> timer_blocks, logger |-> logger]

\* Result of a method call: the object afterwards, the exception raised (or
\* NoErr), the value returned (only __exit__'s matters, FALSE stands for the
\* falsy None), the methods run in order, and the lines handed to the logger.
Result(s, e, c, out) == [self |-> s, err |-> e, ret |-> FALSE, calls |-> c, emitted |-> out]

EmptyDict == [n \in {} |-> None]

Range(f) == {f[i] : i \in DOMAIN f}

\* start() that keeps the marker of a run already in progress.
start_if_idle(s, t) ==
    Result(IF s.start_time = None THEN [s EXCEPT !.start_time = t] ELSE s,
           NoErr, <<"start">>, <<>>)

start(s, t) ==
    Result([s EXCEPT !.start_time = t], NoErr, <<"start">>, <<>>)

\* end() without the start_time check.
end_unchecked(s, t) ==
    Result([s EXCEPT !.end_time = t], NoErr, <<"end">>, <<>>)

end(s, t) ==
    IF s.start_time = None
    THEN Result(s, TimerNotStarted, <<"end">>, <<>>)
    ELSE Result([s EXCEPT !.end_time = t], NoErr, <<"end">>, <<>>)

\* reset() that always empties timer_blocks.
reset_clears_always(s, clear_blocks) ==
    Result([s EXCEPT !.start_time = None, !.end_time = None,
                     !.timer_blocks = EmptyDict],
           NoErr, <<"reset">>, <<>>)

\* reset() that forgets to clear end_time.
reset_start_only(s, clear_blocks) ==
    LET s1 == [s EXCEPT !.start_time = None]
    IN  Result(IF clear_blocks THEN [s1 EXCEPT !.timer_blocks = EmptyDict] ELSE s1,
               NoErr, <<"reset">>, <<>>)

\* reset() that ignores clear_blocks.
reset_keeps_blocks(s, clear_blocks) ==
    Result([s EXCEPT !.start_time = None, !.end_time = None],
           NoErr, <<"reset">>, <<>>)

reset(s, clear_blocks) ==
    LET s1 == [s EXCEPT !.start_time = None, !.end_time = None]
    IN  Result(IF clear_blocks THEN [s1 EXCEPT !.timer_blocks = EmptyDict] ELSE s1,
               NoErr, <<"reset">>, <<>>)

\* float(None) raises TypeError, caught by the blanket except.
FloatFails(x) == x = None

\* dict.update({block_name: {...}})
DictUpdate(d, k, v) == [n \in DOMAIN d \cup {k} |-> IF n = k THEN v ELSE d[n]]

\* save_block() that resets the markers once the block is stored.
save_block_resets(s, block_name) ==
    IF FloatFails(s.end_time) \/ FloatFails(s.start_time)
    THEN Result(s, SaveFailure, <<"save_block">>, <<>>)
    ELSE LET elapsed == s.end_time - s.start_time
             block == [start_time |-> s.start_time, end_time |-> s.end_time,
                       elapsed |-> elapsed]
         IN  Result([s EXCEPT !.timer_blocks = DictUpdate(@, block_name, block),
                              !.start_time = None, !.end_time = None],
                    NoErr, <<"save_block">>, <<>>)

\* save_block() that subtracts the wrong way round.
save_block_swapped(s, block_name) ==
    IF FloatFails(s.end_time) \/ FloatFails(s.start_time)
    THEN Result(s, SaveFailure, <<"save_block">>, <<>>)
    ELSE LET elapsed == s.start_time - s.end_time
             block == [start_time |-> s.start_time, end_time |-> s.end_time,
                       elapsed |-> elapsed]
         IN  Result([s EXCEPT !.timer_blocks = DictUpdate(@, block_name, block)],
                    NoErr, <<"save_block">>, <<>>)

\* save_block() that only fails when start_time is missing.
save_block_start_only(s, block_name) ==
    IF FloatFails(s.start_time)
    THEN Result(s, SaveFailure, <<"save_block">>, <<>>)
    ELSE LET elapsed == s.end_time - s.start_time
             block == [start_time |-> s.start_time, end_time |-> s.end_time,
                       elapsed |-> elapsed]
         IN  Result([s EXCEPT !.timer_blocks = DictUpdate(@, block_name, block)],
                    NoErr, <<"save_block">>, <<>>)

\* save_block() that rebuilds the dict with the new entry alone.
save_block_replaces_dict(s, block_name) ==
    IF FloatFails(s.end_time) \/ FloatFails(s.start_time)
    THEN Result(s, SaveFailure, <<"save_block">>, <<>>)
    ELSE LET elapsed == s.end_time - s.start_time
             block == [start_time |-> s.start_time, end_time |-> s.end_time,
                       elapsed |-> elapsed]
         IN  Result([s EXCEPT !.timer_blocks = DictUpdate(EmptyDict, block_name, block)],
                    NoErr, <<"save_block">>, <<>>)

save_block(s, block_name) ==
    IF FloatFails(s.end_time) \/ FloatFails(s.start_time)
    THEN Result(s, SaveFailure, <<"save_block">>, <<>>)
    ELSE LET elapsed == s.end_time - s.start_time
             block == [start_time |-> s.start_time, end_time |-> s.end_time,
                       elapsed |-> elapsed]
         IN  Result([s EXCEPT !.timer_blocks = DictUpdate(@, block_name, block)],
                    NoErr, <<"save_block">>, <<>>)

\* The f-string: name, then start time, end time, elapsed, each labelled.
FormatLine(block_name, timer_block) ==
    <<block_name, "timer | start time:", timer_block.start_time,
      "| end time:", timer_block.end_time, "| elapsed:", timer_block.elapsed>>

\* log_time() that reports the markers in progress, not the saved block.
log_time_current_markers(s, block_name) ==
    IF block_name \notin DOMAIN s.timer_blocks
    THEN Result(s, NoSavedBlock, <<"log_time">>, <<>>)
    ELSE IF s.logger = NoLogger
    THEN Result(s, NoSinkConfigured, <<"log_time">>, <<>>)
    ELSE Result(s, NoErr, <<"log_time">>,
                <<FormatLine(block_name,
                             [start_time |-> s.start_time, end_time |-> s.end_time,
                              elapsed |-> s.end_time - s.start_time])>>)

\* log_time() that tests the logger before it looks the block up.
log_time_logger_first(s, block_name) ==
    IF s.logger = NoLogger
    THEN Result(s, NoSinkConfigured, <<"log_time">>, <<>>)
    ELSE IF block_name \notin DOMAIN s.timer_blocks
    THEN Result(s, NoSavedBlock, <<"log_time">>, <<>>)
    ELSE Result(s, NoErr, <<"log_time">>,
                <<FormatLine(block_name, s.timer_blocks[block_name])>>)

\* log_time() that returns quietly when the block is missing.
log_time_missing_ok(s, block_name) ==
    IF block_name \notin DOMAIN s.timer_blocks
    THEN Result(s, NoErr, <<"log_time">>, <<>>)
    ELSE IF s.logger = NoLogger
    THEN Result(s, NoSinkConfigured, <<"log_time">>, <<>>)
    ELSE Result(s, NoErr, <<"log_time">>,
                <<FormatLine(block_name, s.timer_blocks[block_name])>>)

\* log_time() that returns quietly when there is no logger.
log_time_no_logger_ok(s, block_name) ==
    IF block_name \notin DOMAIN s.timer_blocks
    THEN Result(s, NoSavedBlock, <<"log_time">>, <<>>)
    ELSE IF s.logger = NoLogger
    THEN Result(s, NoErr, <<"log_time">>, <<>>)
    ELSE Result(s, NoErr, <<"log_time">>,
                <<FormatLine(block_name, s.timer_blocks[block_name])>>)

log_time(s, block_name) ==
    IF block_name \notin DOMAIN s.timer_blocks
    THEN Result(s, NoSavedBlock, <<"log_time">>, <<>>)
    ELSE IF s.logger = NoLogger
    THEN Result(s, NoSinkConfigured, <<"log_time">>, <<>>)
    ELSE Result(s, NoErr, <<"log_time">>,
                <<FormatLine(block_name, s.timer_blocks[block_name])>>)

\* r2 runs after r1: r1's exception, when there is one, ends the sequence.
Then(r1, r2) ==
    [r2 EXCEPT !.calls = r1.calls \o @, !.emitted = r1.emitted \o @]

\* __enter__ that returns self without starting the timer.
enter_no_start(s, t) == Result(s, NoErr, <<>>, <<>>)

enter(s, t) == start(s, t)

\* __exit__ that does nothing when the timer is not running.
exit_guarded(s, t) ==
    IF s.start_time = None THEN Result(s, NoErr, <<>>, <<>>) ELSE
    LET r1 == end(s, t) IN
    IF r1.err # NoErr THEN r1 ELSE
    LET r2 == Then(r1, save_block(r1.self, CtxName)) IN
    IF r2.err # NoErr THEN r2 ELSE
    Then(r2, log_time(r2.self, CtxName))

\* __exit__ that refuses to run without a logger.
exit_checks_logger(s, t) ==
    IF s.logger = NoLogger THEN Result(s, NoSinkConfigured, <<"log_time">>, <<>>) ELSE
    LET r1 == end(s, t) IN
    IF r1.err # NoErr THEN r1 ELSE
    LET r2 == Then(r1, save_block(r1.self, CtxName)) IN
    IF r2.err # NoErr THEN r2 ELSE
    Then(r2, log_time(r2.self, CtxName))

\* __exit__ that returns True, swallowing the exception in flight.
exit_returns_true(s, t) ==
    LET r1 == end(s, t) IN
    IF r1.err # NoErr THEN r1 ELSE
    LET r2 == Then(r1, save_block(r1.self, CtxName)) IN
    IF r2.err # NoErr THEN r2 ELSE
    [Then(r2, log_time(r2.self, CtxName)) EXCEPT !.ret = TRUE]

\* __exit__ that logs before it saves.
exit_logs_first(s, t) ==
    LET r1 == end(s, t) IN
    IF r1.err # NoErr THEN r1 ELSE
    LET r2 == Then(r1, log_time(r1.self, CtxName)) IN
    IF r2.err # NoErr THEN r2 ELSE
    Then(r2, save_block(r2.self, CtxName))

exit(s, t) ==
    LET r1 == end(s, t) IN
    IF r1.err # NoErr THEN r1 ELSE
    LET r2 == Then(r1, save_block(r1.self, CtxName)) IN
    IF r2.err # NoErr THEN r2 ELSE
    Then(r2, log_time(r2.self, CtxName))

\* The `with` statement: an exception raised by __exit__ replaces the one in
\* flight; otherwise the in-flight exception is re-raised unless __exit__
\* returned a true value.
WithOutcome(exc, r) ==
    IF r.err # NoErr THEN r.err
    ELSE IF exc # NoErr /\ ~r.ret THEN exc
    ELSE NoErr

\* time.perf_counter(): monotonic, so a reading is never below the last one.
PerfCounter == {t \in Times : t >= clock /\ t <= clock + 1}

\* What the caller observes of the call just made: the method, its arguments,
\* the exception in flight when __exit__ was called (exc), the exception the
\* method raised (err), the methods it ran, the lines it handed to the logger,
\* and the exception that reaches the caller's next statement (propagated).
\* existed: block_name was a key of timer_blocks when the call was made.
\* noop_body: the region closed by __exit__ made no call on the monitor.
Last(op, r) ==
    [op |-> op, name |-> NoName, clear_blocks |-> FALSE, exc |-> NoErr,
     err |-> r.err, calls |-> r.calls, emitted |-> r.emitted,
     propagated |-> r.err, existed |-> FALSE, noop_body |-> FALSE]

\* The monitor after a call with result r.
Becomes(r) ==
    /\ start_time' = r.self.start_time
    /\ end_time' = r.self.end_time
    /\ timer_blocks' = r.self.timer_blocks
    /\ logger' = r.self.logger

Init ==
    /\ start_time = None
    /\ end_time = None
    /\ timer_blocks = EmptyDict
    /\ logger \in Loggers
    /\ clock = 0
    /\ scopes = <<>>
    /\ own_start = FALSE
    /\ last = Last("init", Result(self, NoErr, <<>>, <<>>))

Start ==
    \E t \in PerfCounter :
        LET r == start(self, t) IN
        /\ Becomes(r)
        /\ clock' = t
        /\ last' = Last("start", r)
        /\ own_start' = FALSE
        /\ UNCHANGED scopes

End ==
    \E t \in PerfCounter :
        LET r == end(self, t) IN
        /\ Becomes(r)
        \* perf_counter() is read only once the start_time check has passed
        /\ clock' = IF r.err = NoErr THEN t ELSE clock
        /\ last' = Last("end", r)
        /\ UNCHANGED <<scopes, own_start>>

Reset ==
    \E clear_blocks \in BOOLEAN :
        LET r == reset(self, clear_blocks) IN
        /\ Becomes(r)
        /\ last' = [Last("reset", r) EXCEPT !.clear_blocks = clear_blocks]
        /\ own_start' = FALSE
        /\ UNCHANGED <<clock, scopes>>

SaveBlock ==
    \E block_name \in Names :
        LET r == save_block(self, block_name) IN
        /\ Becomes(r)
        /\ last' = [Last("save_block", r) EXCEPT
                        !.name = block_name,
                        !.existed = block_name \in DOMAIN timer_blocks]
        /\ UNCHANGED <<clock, scopes, own_start>>

LogTime ==
    \E block_name \in Names :
        LET r == log_time(self, block_name) IN
        /\ Becomes(r)
        /\ last' = [Last("log_time", r) EXCEPT
                        !.name = block_name,
                        !.existed = block_name \in DOMAIN timer_blocks]
        /\ UNCHANGED <<clock, scopes, own_start>>

\* `with monitor:` is entered; the region's entry reading is remembered.
Enter ==
    /\ Len(scopes) < MaxDepth
    /\ \E t \in PerfCounter :
        LET r == enter(self, t) IN
        /\ Becomes(r)
        /\ clock' = t
        /\ scopes' = Append(scopes, t)
        /\ own_start' = TRUE
        /\ last' = Last("__enter__", r)

\* What can end the body of the innermost region: falling off its end, an
\* exception of the body's own, or the exception of the call just made.
BodyOutcomes == {NoErr, CustomError, last.propagated}

\* The innermost `with` region is left and its __exit__ runs.
Exit ==
    /\ Len(scopes) > 0
    /\ \E t \in PerfCounter, exc \in BodyOutcomes :
        LET r == exit(self, t) IN
        /\ Becomes(r)
        /\ clock' = IF "save_block" \in Range(r.calls) THEN t ELSE clock
        /\ scopes' = SubSeq(scopes, 1, Len(scopes) - 1)
        /\ own_start' = FALSE
        /\ last' = [Last("__exit__", r) EXCEPT
                        !.exc = exc,
                        !.propagated = WithOutcome(exc, r),
                        !.noop_body = (last.op = "__enter__")]

Next ==
    \/ Start
    \/ End
    \/ Reset
    \/ SaveBlock
    \/ LogTime
    \/ Enter
    \/ Exit

Spec == Init /\ [][Next]_vars

TypeOK ==
    /\ start_time \in Times \cup {None}
    /\ end_time \in Times \cup {None}
    /\ DOMAIN timer_blocks \subseteq Names
    /\ logger \in Loggers
    /\ clock \in Times
    /\ Len(scopes) <= MaxDepth
    /\ own_start \in BOOLEAN

\* ------------------------------------------------------------ properties
\* The block save_block builds from the markers st and et.
BlockOf(st, et) == [start_time |-> st, end_time |-> et, elapsed |-> et - st]

ExitCalls == <<"end", "save_block", "log_time">>

\* C1: every saved entry has elapsed = end_time - start_time of that same
\* entry, and right after a successful save_block(name) the entry's
\* timestamps are the monitor's markers.
C1_ElapsedIsDifference ==
    /\ \A n \in DOMAIN timer_blocks :
          timer_blocks[n].elapsed = timer_blocks[n].end_time - timer_blocks[n].start_time
    /\ (last.op = "save_block" /\ last.err = NoErr) =>
          /\ timer_blocks[last.name].start_time = start_time
          /\ timer_blocks[last.name].end_time = end_time

C1_Witness ==
    /\ last.op = "save_block" /\ last.err = NoErr
    /\ timer_blocks[last.name].elapsed > 0

\* C2: end() raises the "not started" TimerError exactly when start_time is
\* None, and then changes neither start_time, end_time nor timer_blocks;
\* when start_time is set, end() succeeds and records end_time.
C2_EndNeedsStart ==
    [][last'.op = "end" =>
        IF start_time = None
        THEN /\ last'.err = TimerNotStarted
             /\ UNCHANGED <<start_time, end_time, timer_blocks>>
        ELSE /\ last'.err = NoErr
             /\ end_time' = clock'
             /\ UNCHANGED <<start_time, timer_blocks>>]_vars

\* end() failed after a reset that followed an earlier complete run.
C2_Witness ==
    /\ last.op = "end" /\ last.err = TimerNotStarted
    /\ start_time = None
    /\ timer_blocks # EmptyDict

\* C3: save_block(name) raises SaveError whenever start_time or end_time is
\* None, for every name, and then writes nothing.
C3_SaveNeedsBoth ==
    [][(last'.op = "save_block" /\ (start_time = None \/ end_time = None)) =>
        /\ last'.err = SaveFailure
        /\ UNCHANGED <<start_time, end_time, timer_blocks>>]_vars

\* save_block failed on a monitor that was started but not ended.
C3_Witness ==
    /\ last.op = "save_block" /\ last.err = SaveFailure
    /\ start_time # None /\ end_time = None

\* C4 as stated: with no logger, log_time(name) raises "No logger
\* configured" whether or not name is a key of timer_blocks.
C4_NoSinkAlways ==
    (last.op = "log_time" /\ logger = NoLogger) => last.err = NoSinkConfigured

\* C4 (amended): with no logger, log_time(name) always fails and emits
\* nothing; the error is "No logger configured" when name is a key of
\* timer_blocks and "No saved timer blocks" when it is not.
C4_NoSinkWhenSaved ==
    (last.op = "log_time" /\ logger = NoLogger) =>
        /\ last.emitted = <<>>
        /\ last.err = IF last.name \in DOMAIN timer_blocks
                      THEN NoSinkConfigured ELSE NoSavedBlock

C4_Witness ==
    /\ last.op = "log_time" /\ logger = NoLogger
    /\ last.name \in DOMAIN timer_blocks
    /\ last.err = NoSinkConfigured

\* C5: log_time(name) for a name that is not a key of timer_blocks raises
\* "No saved timer blocks", hands nothing to the logger and changes nothing.
C5_UnsavedNameFails ==
    [][(last'.op = "log_time" /\ last'.name \notin DOMAIN timer_blocks) =>
        /\ last'.err = NoSavedBlock
        /\ last'.emitted = <<>>
        /\ UNCHANGED <<start_time, end_time, timer_blocks, logger>>]_vars

\* log_time failed for an unsaved name while another name was saved.
C5_Witness ==
    /\ last.op = "log_time" /\ last.err = NoSavedBlock
    /\ last.name \notin DOMAIN timer_blocks
    /\ timer_blocks # EmptyDict

\* C6: reset(clear_blocks) never raises, sets start_time and end_time to
\* None, leaves timer_blocks as it was when clear_blocks is false and empty
\* when it is true.
C6_Reset ==
    [][last'.op = "reset" =>
        /\ last'.err = NoErr
        /\ start_time' = None
        /\ end_time' = None
        /\ timer_blocks' = IF last'.clear_blocks THEN EmptyDict ELSE timer_blocks]_vars

\* reset() without the flag on a monitor holding saved blocks.
C6_Witness ==
    /\ last.op = "reset" /\ ~last.clear_blocks
    /\ start_time = None /\ end_time = None
    /\ timer_blocks # EmptyDict

\* C7: a successful save_block(name) stores the block built from the current
\* markers under name and leaves every other entry alone; the number of
\* entries is unchanged when name was a key and grows by one when it was not.
C7_SaveOverwrites ==
    [][(last'.op = "save_block" /\ last'.err = NoErr) =>
        /\ timer_blocks'[last'.name] = BlockOf(start_time, end_time)
        /\ \A m \in DOMAIN timer_blocks \ {last'.name} :
              m \in DOMAIN timer_blocks' /\ timer_blocks'[m] = timer_blocks[m]
        /\ Cardinality(DOMAIN timer_blocks') =
              Cardinality(DOMAIN timer_blocks) +
                  (IF last'.name \in DOMAIN timer_blocks THEN 0 ELSE 1)]_vars

\* An existing name was saved again while another name was saved too.
C7_Witness ==
    /\ last.op = "save_block" /\ last.err = NoErr /\ last.existed
    /\ Cardinality(DOMAIN timer_blocks) = 2
    /\ \E m \in DOMAIN timer_blocks : timer_blocks[m] # timer_blocks[last.name]

\* C8: when a region whose body raised leaves a monitor that has a logger
\* and a start_time, __exit__ raises nothing, saves "ctx_manager", hands
\* the logger exactly one line for it, and the body's exception reaches the
\* caller.
C8_BodyErrorPropagates ==
    [][(last'.op = "__exit__" /\ last'.exc # NoErr
            /\ logger = Sink /\ start_time # None) =>
        /\ last'.err = NoErr
        /\ last'.calls = ExitCalls
        /\ CtxName \in DOMAIN timer_blocks'
        /\ timer_blocks'[CtxName] = BlockOf(start_time, end_time')
        /\ last'.emitted = <<FormatLine(CtxName, timer_blocks'[CtxName])>>
        /\ last'.propagated = last'.exc]_vars

C8_Witness ==
    /\ last.op = "__exit__" /\ last.exc = CustomError
    /\ logger = Sink
    /\ last.calls = ExitCalls
    /\ Len(last.emitted) = 1
    /\ last.propagated = CustomError

\* C9: __enter__ runs start(); __exit__ runs end(), save_block("ctx_manager"),
\* log_time("ctx_manager") in that order whatever ended the body, stopping at
\* the first that raises; with a logger and a body that made no call on the
\* monitor, "ctx_manager" is saved with the region's entry and exit readings
\* and the logger gets exactly one line, that of the block just saved.
C9_ExitSequence ==
    [][/\ last'.op = "__enter__" =>
            last'.calls = <<"start">> /\ start_time' = clock'
       /\ last'.op = "__exit__" =>
            /\ Len(last'.calls) >= 1
            /\ last'.calls = SubSeq(ExitCalls, 1, Len(last'.calls))
            /\ (Len(last'.calls) < 3) = (last'.err \in {TimerNotStarted, SaveFailure})
            /\ (Len(last'.calls) = 1) = (start_time = None)
            /\ Len(last'.calls) = 1 =>
                    UNCHANGED <<end_time, timer_blocks>> /\ last'.emitted = <<>>
            /\ Len(last'.calls) = 3 =>
                    /\ end_time' = clock'
                    /\ CtxName \in DOMAIN timer_blocks'
                    /\ timer_blocks'[CtxName] = BlockOf(start_time, end_time')
            /\ (last.op = "__enter__" /\ logger = Sink) =>
                    /\ last'.err = NoErr
                    /\ timer_blocks'[CtxName] = BlockOf(scopes[Len(scopes)], clock')
                    /\ last'.emitted = <<FormatLine(CtxName, timer_blocks'[CtxName])>>]_vars

C9_Witness ==
    /\ last.op = "__exit__" /\ last.noop_body /\ last.exc = NoErr
    /\ logger = Sink
    /\ CtxName \in DOMAIN timer_blocks
    /\ last.emitted = <<FormatLine(CtxName, timer_blocks[CtxName])>>

\* C10: on a monitor with no logger, leaving a region whose body made no
\* call raises "No logger configured" from log_time, after end() and
\* save_block() have succeeded.
C10_NoSinkExitFails ==
    [][(last'.op = "__exit__" /\ last.op = "__enter__" /\ logger = NoLogger) =>
        /\ last'.err = NoSinkConfigured
        /\ last'.propagated = NoSinkConfigured
        /\ last'.calls = ExitCalls
        /\ last'.emitted = <<>>
        /\ end_time' = clock'
        /\ timer_blocks'[CtxName] = BlockOf(start_time, end_time')]_vars

C10_Witness ==
    /\ last.op = "__exit__" /\ last.noop_body /\ last.exc = NoErr
    /\ logger = NoLogger
    /\ last.err = NoSinkConfigured
    /\ last.calls = ExitCalls
    /\ CtxName \in DOMAIN timer_blocks

\* C11 as stated: whenever __exit__ gets as far as saving, the "ctx_manager"
\* block has the region's own entry reading as start_time and its own exit
\* reading as end_time, also when the body called start() or opened a
\* nested region.
C11_TimesOwnRegion ==
    [][(last'.op = "__exit__" /\ Len(last'.calls) = 3) =>
        timer_blocks'[CtxName] = BlockOf(scopes[Len(scopes)], clock')]_vars

\* C11 (amended): whenever __exit__ gets as far as saving, the "ctx_manager"
\* block has the region's own exit reading as end_time and the monitor's
\* start_time at exit as start_time; that is the region's own entry reading
\* when the body called neither start() nor reset() nor opened a nested
\* region.
C11_TimesSinceLastStart ==
    [][(last'.op = "__exit__" /\ Len(last'.calls) = 3) =>
        /\ timer_blocks'[CtxName].end_time = clock'
        /\ timer_blocks'[CtxName].start_time = start_time
        /\ own_start => timer_blocks'[CtxName] = BlockOf(scopes[Len(scopes)], clock')]_vars

\* A region whose body called end() and save_block() was left, and its
\* block runs from its entry to its exit.
C11_Witness ==
    /\ last.op = "__exit__" /\ Len(last.calls) = 3 /\ ~last.noop_body
    /\ timer_blocks[CtxName].start_time < timer_blocks[CtxName].end_time
    /\ timer_blocks[CtxName].end_time = clock
    /\ "a" \in DOMAIN timer_blocks
    /\ timer_blocks["a"].start_time = timer_blocks[CtxName].start_time

\* C12: no saved block pairs the start_time of a newer run with the end_time
\* of an earlier one: with the monotonic clock, no saved block has end_time
\* earlier than its start_time.
C12_NoStaleEnd ==
    \A n \in DOMAIN timer_blocks :
        timer_blocks[n].end_time >= timer_blocks[n].start_time

C14_LogTimeFrame ==
    [][/\ last'.op = "log_time" =>
            /\ UNCHANGED <<start_time, end_time, timer_blocks, logger>>
            /\ (last'.err = NoErr) = (Len(last'.emitted) = 1)
            /\ Len(last'.emitted) <= 1
            /\ last'.err = NoErr =>
                  LET line == last'.emitted[1]
                      block == timer_blocks[last'.name]
                  IN  /\ Len(line) = 7
                      /\ line[1] = last'.name
                      /\ line[3] = block.start_time
                      /\ line[5] = block.end_time
                      /\ line[7] = block.elapsed
       /\ last'.op \in {"start", "end", "reset", "save_block", "__enter__"} =>
            last'.emitted = <<>>]_vars

\* A block was logged while the markers in progress differed from it.
C14_Witness ==
    /\ last.op = "log_time" /\ last.err = NoErr
    /\ Len(last.emitted) = 1
    /\ timer_blocks[last.name].start_time # start_time
    /\ timer_blocks[last.name].end_time # end_time

\* The step stored a block under n: save_block(n) succeeded, called directly
\* or, for "ctx_manager", by __exit__.
Saved(n) ==
    \/ last'.op = "save_block" /\ last'.name = n /\ last'.err = NoErr
    \/ last'.op = "__exit__" /\ n = CtxName /\ Len(last'.calls) = 3

\* C15: a name becomes a key of timer_blocks only by a successful
\* save_block(name), and its entry changes only by a later successful
\* save_block(name) or goes away by reset(clear_blocks=True).
C15_BlocksPersist ==
    [][\A n \in Names :
        /\ (n \notin DOMAIN timer_blocks /\ n \in DOMAIN timer_blocks') => Saved(n)
        /\ (n \in DOMAIN timer_blocks /\ ~Saved(n)
                /\ ~(last'.op = "reset" /\ last'.clear_blocks)) =>
              n \in DOMAIN timer_blocks' /\ timer_blocks'[n] = timer_blocks[n]]_vars

\* A saved block has outlived a reset without the flag and a failed end().
C15_Witness ==
    /\ last.op = "end" /\ last.err = TimerNotStarted
    /\ "a" \in DOMAIN timer_blocks
    /\ CtxName \notin DOMAIN timer_blocks
    /\ timer_blocks["a"].end_time < clock

\* C16: when start_time is None at the end of a region (the body called
\* reset() and did not start again), __exit__ fails in end(): nothing is
\* saved, nothing is logged, and the "not started" TimerError is what leaves
\* the with statement, also when the body had raised.
C16_ExitAfterReset ==
    [][(last'.op = "__exit__" /\ start_time = None) =>
        /\ last'.err = TimerNotStarted
        /\ last'.calls = <<"end">>
        /\ last'.emitted = <<>>
        /\ UNCHANGED <<start_time, end_time, timer_blocks>>
        /\ last'.propagated = TimerNotStarted]_vars

C16_Witness ==
    /\ last.op = "__exit__" /\ last.exc = CustomError
    /\ last.err = TimerNotStarted
    /\ last.propagated = TimerNotStarted
    /\ start_time = None

\* The readings perf_counter() can give after reading c.
ReadingsFrom(c) == {t \in Times : t >= c /\ t <= c + 1}

\* start(); end(); save_block(name) run from the current state with readings
\* t1 and t2 all succeed and leave the run's block under name.
RunSucceeds(t1, t2, name) ==
    LET r1 == start(self, t1)
        r2 == end(r1.self, t2)
        r3 == save_block(r2.self, name)
    IN  /\ r1.err = NoErr /\ r2.err = NoErr /\ r3.err = NoErr
        /\ r3.self.timer_blocks[name] = BlockOf(t1, t2)

\* C17: from every reachable state, whatever failed before, start(); end();
\* save_block(name) succeeds and leaves the run's timestamps under name.
C17_AlwaysReusable ==
    \A name \in Names : \A t1 \in ReadingsFrom(clock) : \A t2 \in ReadingsFrom(t1) :
        RunSucceeds(t1, t2, name)

\* A region's exit has just failed, and a full run made from here succeeds.
C17_Witness ==
    /\ last.op = "__exit__" /\ last.err = TimerNotStarted
    /\ start_time = None /\ end_time = None
    /\ clock < MaxTime
    /\ RunSucceeds(clock, clock + 1, "a")

\* C18: end_time is never set while start_time is None, so save_block
\* succeeds exactly when end_time is set.
C18_EndImpliesStart ==
    /\ end_time # None => start_time # None
    /\ last.op = "save_block" => ((last.err = NoErr) = (end_time # None))

C18_Witness ==
    /\ last.op = "save_block" /\ last.err = SaveFailure
    /\ end_time = None
    /\ timer_blocks # EmptyDict

\* C19: without a logger, an __exit__ that finds start_time set fails with
\* "No logger configured" only after it has set end_time and written
\* "ctx_manager"; that error, not the body's, leaves the with statement.
C19_NoSinkExitWrites ==
    [][last'.op = "__exit__" =>
        /\ (logger = NoLogger /\ start_time # None) => last'.err = NoSinkConfigured
        /\ last'.err = NoSinkConfigured =>
              /\ logger = NoLogger
              /\ last'.calls = ExitCalls
              /\ end_time' = clock'
              /\ CtxName \in DOMAIN timer_blocks'
              /\ timer_blocks'[CtxName] = BlockOf(start_time, end_time')
              /\ last'.propagated = NoSinkConfigured]_vars

\* The body raised, the exit failed for want of a logger, and the block it
\* wrote carries a later end_time than the body's own end().
C19_Witness ==
    /\ last.op = "__exit__" /\ last.exc = CustomError
    /\ last.err = NoSinkConfigured
    /\ last.propagated = NoSinkConfigured
    /\ "a" \in DOMAIN timer_blocks
    /\ timer_blocks[CtxName].end_time > timer_blocks["a"].end_time
====
